---- MODULE Spec2Model ----
(***************************************************************************)
(* Model of the Elo rating engine of src/elo.py (class Elo).               *)
(*                                                                         *)
(* Python floats are modelled as fixed-point numbers: the integer n stands *)
(* for the real n / SCALE.  Every float operation is the real operation    *)
(* rounded to the nearest representable value, as IEEE arithmetic does at  *)
(* its own (finer) precision.                                              *)
(***************************************************************************)
EXTENDS Integers, Sequences, FiniteSets, TLC

\* ---------------------------------------------------------------- bounds
MaxMatches == 2     \* longest match history explored

\* ------------------------------------------------------- float arithmetic
SCALE == 10 ^ 4                 \* fixed-point units per 1.0
LN10 == 23026                   \* ln(10) in fixed point
ExpTerms == 16                  \* terms of the exponential series

\* n / d rounded to the nearest integer (d > 0)
RoundDiv(n, d) == (2 * n + d) \div (2 * d)

RECURSIVE ExpSeries(_, _, _)
\* sum of the series terms number n, n+1, ... of e^y, `term` being term n-1
ExpSeries(y, term, n) ==
    IF n > ExpTerms \/ term = 0 THEN 0
    ELSE LET t == RoundDiv(term * y, n * SCALE)
         IN  t + ExpSeries(y, t, n + 1)

\* e^y for 0 <= y < ln(10)
Exp(y) == SCALE + ExpSeries(y, SCALE, 1)

RECURSIVE IntPow10(_)
IntPow10(q) == IF q = 0 THEN 1 ELSE 10 * IntPow10(q - 1)

\* 10 ** x : x = q + f with q an integer and 0 <= f < 1, 10^x = 10^q * e^(f ln 10)
Pow10(x) ==
    LET q == x \div SCALE
        f == x % SCALE
        m == Exp(RoundDiv(f * LN10, SCALE))
    IN  IF q >= 0 THEN m * IntPow10(q) ELSE RoundDiv(m, IntPow10(-q))

\* ------------------------------------------------------------- constants
InitialRating == 1500
KFactor == 32
initial_rating == InitialRating * SCALE
k_factor == KFactor

\* score1 values a caller passes: 1, 0.5, 0 and the out-of-set 0.3, -1
WIN == SCALE
DRAW == SCALE \div 2
LOSE == 0
ValidScores == {WIN, DRAW, LOSE}
Scores == ValidScores \cup {(3 * SCALE) \div 10, -SCALE}

\* ------------------------------------------------------------- the dict
\* self.players is a Python dict: a sequence of <<key, value>> items in
\* insertion order with unique keys.
Keys(d) == {d[i][1] : i \in 1..Len(d)}
Get(d, k) == d[CHOOSE i \in 1..Len(d) : d[i][1] = k][2]
Put(d, k, v) ==
    IF k \in Keys(d)
    THEN [i \in 1..Len(d) |-> IF d[i][1] = k THEN <<k, v>> ELSE d[i]]
    ELSE Append(d, <<k, v>>)

\* ------------------------------------------------------------ class Elo
\* The object is the record [players, matches]; `stdout` collects what a call
\* prints and `valid_calls` counts the add_match_result calls whose score1
\* argument is one of 1, 0.5, 0.
Line(text) == [text |-> text, items |-> <<>>]

RECURSIVE FromList(_, _)
\* {player_name: initial_rating for player_name in players}
FromList(names, i) ==
    IF i = 0 THEN <<>> ELSE Put(FromList(names, i - 1), names[i], initial_rating)

\* Elo.__init__
__init__(names) ==
    [players |-> FromList(names, Len(names)), matches |-> <<>>,
     stdout |-> <<>>, valid_calls |-> 0]

\* Mutant: add_player without the membership test
add_player_overwrite(self, name) ==
    [self EXCEPT !.players = Put(@, name, initial_rating)]

\* Elo.add_player
add_player(self, name) ==
    IF name \in Keys(self.players)
    THEN [self EXCEPT !.stdout = Append(@, Line("WARNING: player already exists"))]
    ELSE [self EXCEPT !.players = Put(@, name, initial_rating)]

\* Mutant: the expected score without the `1 +` of the denominator
Expected_no_one(rating1, rating2) ==
    RoundDiv(SCALE * SCALE, Pow10(RoundDiv(rating2 - rating1, 400)))

\* Mutant: the expected score of the absolute rating difference
Expected_abs(rating1, rating2) ==
    LET d == IF rating2 >= rating1 THEN rating2 - rating1 ELSE rating1 - rating2
    IN  RoundDiv(SCALE * SCALE, SCALE + Pow10(RoundDiv(d, 400)))

\* 1 / (1 + 10 ** ((rating2 - rating1) / 400))
Expected(rating1, rating2) ==
    RoundDiv(SCALE * SCALE, SCALE + Pow10(RoundDiv(rating2 - rating1, 400)))

\* Elo._expected_score
_expected_score(self, player1, player2) ==
    LET rating1 == Get(self.players, player1)
        rating2 == Get(self.players, player2)
    IN  Expected(rating1, rating2)

\* Elo._update_rating
_update_rating(self, player1, player2, score1) ==
    LET expected1 == _expected_score(self, player1, player2)
        rating1 == Get(self.players, player1)
    IN  [self EXCEPT !.players = Put(@, player1, rating1 + k_factor * (score1 - expected1))]

\* Mutant: add_match_result that registers the players before it validates
\* the score
add_match_result_late_check(self, player1, player2, score1) ==
    LET s1 == IF player1 \notin Keys(self.players) THEN add_player(self, player1) ELSE self
        s2 == IF player2 \notin Keys(s1.players) THEN add_player(s1, player2) ELSE s1
    IN  IF score1 \notin ValidScores
        THEN [s2 EXCEPT !.stdout = Append(@, Line("WARNING: invalid competition result"))]
        ELSE LET s3 == [s2 EXCEPT !.valid_calls = @ + 1,
                                  !.matches = Append(@, <<player1, player2, score1>>)]
                 s4 == _update_rating(s3, player1, player2, score1)
             IN  _update_rating(s4, player2, player1, SCALE - score1)

\* Mutant: add_match_result that appends the record before it validates
\* the score
add_match_result_early_append(self, player1, player2, score1) ==
    LET s0 == [self EXCEPT !.matches = Append(@, <<player1, player2, score1>>)]
    IN  IF score1 \notin ValidScores
        THEN [s0 EXCEPT !.stdout = Append(@, Line("WARNING: invalid competition result"))]
        ELSE LET s1 == [s0 EXCEPT !.valid_calls = @ + 1]
                 s2 == IF player1 \notin Keys(s1.players) THEN add_player(s1, player1) ELSE s1
                 s3 == IF player2 \notin Keys(s2.players) THEN add_player(s2, player2) ELSE s2
                 s4 == _update_rating(s3, player1, player2, score1)
             IN  _update_rating(s4, player2, player1, SCALE - score1)

\* Mutant: add_match_result that gives player2 the score of player1
add_match_result_same_score(self, player1, player2, score1) ==
    IF score1 \notin ValidScores
    THEN [self EXCEPT !.stdout = Append(@, Line("WARNING: invalid competition result"))]
    ELSE LET s0 == [self EXCEPT !.valid_calls = @ + 1]
             s1 == IF player1 \notin Keys(s0.players) THEN add_player(s0, player1) ELSE s0
             s2 == IF player2 \notin Keys(s1.players) THEN add_player(s1, player2) ELSE s1
             s3 == [s2 EXCEPT !.matches = Append(@, <<player1, player2, score1>>)]
             s4 == _update_rating(s3, player1, player2, score1)
         IN  _update_rating(s4, player2, player1, score1)

\* Mutant: add_match_result that keeps only the newest record
add_match_result_overwrite(self, player1, player2, score1) ==
    IF score1 \notin ValidScores
    THEN [self EXCEPT !.stdout = Append(@, Line("WARNING: invalid competition result"))]
    ELSE LET s0 == [self EXCEPT !.valid_calls = @ + 1]
             s1 == IF player1 \notin Keys(s0.players) THEN add_player(s0, player1) ELSE s0
             s2 == IF player2 \notin Keys(s1.players) THEN add_player(s1, player2) ELSE s1
             s3 == [s2 EXCEPT !.matches = <<<<player1, player2, score1>>>>]
             s4 == _update_rating(s3, player1, player2, score1)
         IN  _update_rating(s4, player2, player1, SCALE - score1)

\* Elo.add_match_result
add_match_result(self, player1, player2, score1) ==
    IF score1 \notin ValidScores
    THEN [self EXCEPT !.stdout = Append(@, Line("WARNING: invalid competition result"))]
    ELSE LET s0 == [self EXCEPT !.valid_calls = @ + 1]
             s1 == IF player1 \notin Keys(s0.players) THEN add_player(s0, player1) ELSE s0
             s2 == IF player2 \notin Keys(s1.players) THEN add_player(s1, player2) ELSE s1
             s3 == [s2 EXCEPT !.matches = Append(@, <<player1, player2, score1>>)]
             s4 == _update_rating(s3, player1, player2, score1)
         IN  _update_rating(s4, player2, player1, SCALE - score1)

\* float(token): the tokens a text file may carry in the score column
IsFloat(token) == token \in {"1", "0.5", "0", "2"}
Float(token) ==
    CASE token = "1" -> SCALE
      [] token = "0.5" -> SCALE \div 2
      [] token = "0" -> 0
      [] token = "2" -> 2 * SCALE

RECURSIVE from_txt_loop(_, _, _)
\* the for loop of Elo.from_txt inside its try block: the first exception
\* leaves the loop and is printed by the except clause
from_txt_loop(self, lines, i) ==
    IF i > Len(lines) THEN self
    ELSE LET match == lines[i]
         IN  IF Len(match) < 3
             THEN [self EXCEPT !.stdout = Append(@, Line("IndexError"))]
             ELSE IF ~IsFloat(match[3])
             THEN [self EXCEPT !.stdout = Append(@, Line("ValueError"))]
             ELSE from_txt_loop(add_match_result(self, match[1], match[2], Float(match[3])),
                                lines, i + 1)

\* Elo.from_txt; file.exists is false when open() raises FileNotFoundError,
\* file.lines are the lines of the file after strip().split()
from_txt(self, file) ==
    IF ~file.exists
    THEN [self EXCEPT !.stdout = @ \o <<Line("FileNotFoundError"), Line("UnboundLocalError")>>]
    ELSE from_txt_loop(self, file.lines, 1)

RECURSIVE SortDesc(_)
\* list.sort(key=lambda x: x[1], reverse=True): stable, so equal ratings keep
\* their dict order
SortDesc(items) ==
    IF items = <<>> THEN <<>>
    ELSE LET first == CHOOSE i \in 1..Len(items) :
                 /\ \A j \in 1..Len(items) : items[j][2] <= items[i][2]
                 /\ \A j \in 1..(i - 1) : items[j][2] < items[i][2]
             rest == [j \in 1..(Len(items) - 1) |-> IF j < first THEN items[j] ELSE items[j + 1]]
         IN  <<items[first]>> \o SortDesc(rest)

\* Elo.print_rating
print_rating(self) ==
    [self EXCEPT !.stdout = Append(@, [text |-> "Results:", items |-> SortDesc(self.players)])]

\* ------------------------------------------------------- the state machine
VARIABLES
    players,        \* self.players
    matches,        \* self.matches
    stdout,         \* what the most recent call printed
    valid_calls,    \* add_match_result calls made so far with score1 in (1, 0.5, 0)
    last            \* the most recent call, with self.players and self.matches before it

vars == <<players, matches, stdout, valid_calls, last>>

self == [players |-> players, matches |-> matches, stdout |-> <<>>, valid_calls |-> valid_calls]

NoFile == [exists |-> FALSE, lines |-> <<>>]

Call(op, player1, player2, score1, file) ==
    [op |-> op, player1 |-> player1, player2 |-> player2, score1 |-> score1, file |-> file,
     players |-> players, matches |-> matches]

Becomes(new, call) ==
    /\ players' = new.players
    /\ matches' = new.matches
    /\ stdout' = new.stdout
    /\ valid_calls' = new.valid_calls
    /\ last' = call

\* the arguments the model draws from
Names == {"a", "b", "c"}
Pairings == {<<"a", "b">>, <<"b", "a">>, <<"b", "c">>, <<"c", "c">>}
InitialPlayers == {<<>>, <<"c">>, <<"b", "a", "b">>}
Files ==
    { NoFile,
      [exists |-> TRUE, lines |-> <<>>],
      [exists |-> TRUE, lines |-> << <<"a", "b", "1">>, <<"b", "c", "0.5">> >>],
      [exists |-> TRUE, lines |-> << <<"a", "b">>, <<"b", "a", "0">> >>],
      [exists |-> TRUE, lines |-> << <<"b", "c", "1">>, <<"c", "b", "x">>, <<"a", "b", "0.5">> >>],
      [exists |-> TRUE, lines |-> << <<>>, <<"b", "c", "1">> >>],
      [exists |-> TRUE, lines |-> << <<"a", "c", "2">>, <<"c", "a", "0", "extra">> >>] }

Init ==
    \E names \in InitialPlayers :
        /\ players = __init__(names).players
        /\ matches = __init__(names).matches
        /\ stdout = <<>>
        /\ valid_calls = 0
        /\ last = [op |-> "__init__", player1 |-> "", player2 |-> "", score1 |-> 0,
                   file |-> NoFile, players |-> <<>>, matches |-> <<>>]

AddPlayer ==
    \E name \in Names :
        Becomes(add_player(self, name), Call("add_player", name, "", 0, NoFile))

ExpectedScore ==
    \E pair \in Pairings :
        LET player1 == pair[1]
            player2 == pair[2]
        IN  /\ {player1, player2} \subseteq Keys(players)
            /\ Becomes(self, Call("_expected_score", player1, player2, 0, NoFile))

AddMatchResult ==
    \E pair \in Pairings, score1 \in Scores :
        LET player1 == pair[1]
            player2 == pair[2]
        IN  /\ Len(matches) < MaxMatches
            /\ Becomes(add_match_result(self, player1, player2, score1),
                       Call("add_match_result", player1, player2, score1, NoFile))

FromTxt ==
    \E file \in Files :
        /\ Len(matches) + Len(file.lines) <= MaxMatches
        /\ Becomes(from_txt(self, file), Call("from_txt", "", "", 0, file))

PrintRating ==
    Becomes(print_rating(self), Call("print_rating", "", "", 0, NoFile))

Next == AddPlayer \/ ExpectedScore \/ AddMatchResult \/ FromTxt \/ PrintRating

Spec == Init /\ [][Next]_vars

\* ------------------------------------------------------------ the claims
\* the call `last` is an add_match_result whose score passed the validation
Recorded == last.op = "add_match_result" /\ last.score1 \in ValidScores
Rejected == last.op = "add_match_result" /\ last.score1 \notin ValidScores

\* the rating a player has when the updates of the call `last` begin: the
\* one before the call, or initial_rating when the call registered the player
PreRating(name) ==
    IF name \in Keys(last.players) THEN Get(last.players, name) ELSE initial_rating

Delta(name) == Get(players, name) - PreRating(name)

\* C1: after add_match_result(A, B, scoreA) between distinct players with a
\* valid score, both ratings equal the closed form over the PRE-match
\* ratings: R_A' = R_A + K*(scoreA - E(R_A,R_B)), R_B' = R_B + K*((1-scoreA) - E(R_B,R_A)).
C1_PreMatchClosedForm ==
    (Recorded /\ last.player1 # last.player2) =>
        LET A == last.player1
            B == last.player2
        IN  /\ Get(players, A) = PreRating(A)
                   + k_factor * (last.score1 - Expected(PreRating(A), PreRating(B)))
            /\ Get(players, B) = PreRating(B)
                   + k_factor * ((SCALE - last.score1) - Expected(PreRating(B), PreRating(A)))

\* C2: add_match_result with a score outside {1, 0.5, 0} leaves the mapping
\* and the history exactly as they were: no player is created, no rating
\* changes, no record is appended.
C2_InvalidScoreNoEffect ==
    Rejected => (players = last.players /\ matches = last.matches)

C2_Witness ==
    /\ Rejected
    /\ last.player1 \notin Keys(players)
    /\ matches # <<>>

\* the match tuples of the well-formed lines of a file that carry a valid
\* score, in order
RECURSIVE WellFormedMatches(_, _)
WellFormedMatches(lines, i) ==
    IF i > Len(lines) THEN <<>>
    ELSE LET match == lines[i]
             rest == WellFormedMatches(lines, i + 1)
         IN  IF Len(match) >= 3 /\ IsFloat(match[3]) /\ Float(match[3]) \in ValidScores
             THEN <<<<match[1], match[2], Float(match[3])>>>> \o rest
             ELSE rest

\* C3: from_txt skips only the malformed lines: after it the history is the
\* one before it followed by every well-formed valid-score line of the file,
\* in order, the ones after a malformed line included.
C3_MalformedLineSkipped ==
    (last.op = "from_txt" /\ last.file.exists) =>
        matches = last.matches \o WellFormedMatches(last.file.lines, 1)

\* C4: every player named in a record of the history is a key of the
\* mapping, and no call removes a key of the mapping.
C4_HistoryPlayersRegistered ==
    /\ \A i \in 1..Len(matches) : {matches[i][1], matches[i][2]} \subseteq Keys(players)
    /\ Keys(last.players) \subseteq Keys(players)

C4_Witness ==
    /\ last.op = "from_txt"
    /\ Len(matches) > Len(last.matches)
    /\ Keys(players) # Keys(last.players)
    /\ last.players # <<>>

\* C5: add_player of a name already in the mapping changes neither the
\* mapping (that player's current rating included) nor the history; of an
\* absent name it adds the one entry (name, initial_rating) and nothing else.
C5_AddPlayerIdempotent ==
    last.op = "add_player" =>
        /\ matches = last.matches
        /\ IF last.player1 \in Keys(last.players)
           THEN players = last.players
           ELSE players = Append(last.players, <<last.player1, initial_rating>>)

C5_Witness ==
    /\ last.op = "add_player"
    /\ last.player1 \in Keys(last.players)
    /\ Get(players, last.player1) # initial_rating

\* C6: a draw between two players whose ratings are equal before the match
\* leaves both ratings unchanged, and is still appended to the history.
C6_DrawAtEqualRatings ==
    (Recorded /\ last.score1 = DRAW /\ PreRating(last.player1) = PreRating(last.player2)) =>
        /\ Delta(last.player1) = 0
        /\ Delta(last.player2) = 0
        /\ matches = Append(last.matches, <<last.player1, last.player2, DRAW>>)

C6_Witness ==
    /\ Recorded
    /\ last.score1 = DRAW
    /\ last.player1 # last.player2
    /\ PreRating(last.player1) = PreRating(last.player2)
    /\ last.matches # <<>>

C8_ExpectedScoreSymmetric ==
    /\ \A A \in Keys(players), B \in Keys(players) :
           LET sum == _expected_score(self, A, B) + _expected_score(self, B, A)
           IN  sum - SCALE \in -1..1
    /\ last.op = "_expected_score" => (players = last.players /\ matches = last.matches)

C8_Witness ==
    /\ last.op = "_expected_score"
    /\ Get(players, last.player1) # Get(players, last.player2)

\* C9: the history is append-only and counts the accepted matches: a call
\* of add_match_result with a valid score appends its record at the end, no
\* call changes an earlier record, no other call changes the history, and
\* the length of the history is the number of valid-score calls made.
C9_HistoryAppendOnly ==
    /\ Len(matches) = valid_calls
    /\ Len(last.matches) <= Len(matches)
    /\ \A i \in 1..Len(last.matches) : matches[i] = last.matches[i]
    /\ Recorded => matches = Append(last.matches, <<last.player1, last.player2, last.score1>>)
    /\ (Rejected \/ last.op \in {"add_player", "_expected_score", "print_rating"})
           => matches = last.matches

C9_Witness ==
    /\ Recorded
    /\ Len(matches) = 2
    /\ Cardinality(Keys(players)) = 3

\* C10: rating points are conserved: a recorded match between distinct
\* players leaves R_A + R_B unchanged, up to the rounding of the two expected
\* scores (k_factor times one unit of the last place).
C10_ZeroSum ==
    (Recorded /\ last.player1 # last.player2) =>
        Delta(last.player1) + Delta(last.player2) \in -k_factor..k_factor
====
